---- MODULE Spec2Model ----
(***************************************************************************)
(* Movie recommender (src/app.py): the poster cache, the persisted         *)
(* blacklist of TMDB identifiers, the metadata resolution of one record,   *)
(* and the ranking / listing functions over the loaded catalog.            *)
(*                                                                         *)
(* Values.  Text is a sequence of tokens, so that "starts with /" and      *)
(* lower-casing are computed and not assumed.  A missing value (None, NaN, *)
(* the empty string) is the empty sequence.  An identifier is a record     *)
(* [t, n]: t = "int" for the number n, "str" for the numeric string of n,  *)
(* "none" for None.  Python compares 1 and "1" unequal, and so does the    *)
(* model; both print the same in a URL.                                    *)
(***************************************************************************)
EXTENDS Integers, Sequences, FiniteSets, TLC

VARIABLES
    loaded,         \* FALSE when the pickles failed to load (movies is None)
    movies,         \* the catalog: a sequence of rows (DataFrame of line 97)
    columns,        \* the optional columns the loaded catalog has
    similarity,     \* similarity[i][j], rows aligned with movies
    bad_tmdb_ids,   \* the in-memory blacklist (line 45)
    poster_cache,   \* the per-run poster cache (line 48)
    bad_file,       \* artifacts/bad_tmdb_ids.pkl on disk
    running,        \* FALSE after the process died inside a write
    prev404,        \* the numbers the process before this one had blacklisted
    call,           \* the last call: its arguments, what it sent and returned
    threads         \* the fetch_poster calls that request threads are in

vars == <<loaded, movies, columns, similarity, bad_tmdb_ids, poster_cache,
          bad_file, running, prev404, call, threads>>

-----------------------------------------------------------------------------
(* Bounds of the model *)

MaxId == 2          \* TMDB identifiers are 1..MaxId
MaxRows == 3        \* rows of the catalog of the listing specification
MaxRank == 6        \* rows of the catalog of the ranking specification
MaxThreads == 2     \* request threads running at the same time

(* Program constants *)

TopK == 5           \* distances[1:6] keeps five entries
SkipFirst == 1      \* distances[1:6] drops the first entry
MaxRating == 100    \* vote_average <= 10, in tenths
DefaultN == 20      \* n=20 of get_curated_movies / get_movies_by_genre

-----------------------------------------------------------------------------
(* Identifiers *)

IdNone == [t |-> "none", n |-> 0]
IntId(k) == [t |-> "int", n |-> k]
StrId(k) == [t |-> "str", n |-> k]
Nums == 1..MaxId
\* identifiers as a caller may pass them: numbers only, or numeric strings too
NumArgs == {IdNone} \cup {IntId(k) : k \in Nums}
IdArgs == NumArgs \cup {StrId(k) : k \in Nums}

\* `not movie_id`: None, 0 and "" are falsy; a numeric string is not
Falsy(id) == id.t = "none" \/ (id.t = "int" /\ id.n = 0)

\* lines 54-57: key = int(movie_id), the identifier itself when int() raises
ToKey(id) == IF id.t \in {"int", "str"} THEN [t |-> "int", n |-> id.n] ELSE id

-----------------------------------------------------------------------------
(* Text *)

NoValue == <<>>
\* no placeholder at all
EmptyPoster == <<>>
PLACEHOLDER_POSTER == <<"placehold.co", "No+Poster">>
W500 == <<"image.tmdb.org", "w500">>
\* line 13: the key the program falls back to when the environment sets none
TMDB_API_KEY == <<"8265bd1679663a7ea12ac168da84d2e8">>

StartsWithSlash(s) == Len(s) > 0 /\ s[1] = "/"

\* the poster paths the provider may answer with, relative and absolute
PosterPaths == {<<"/", "p1">>, <<"http", "p2">>}

LowerChar(c) ==
    CASE c = "A" -> "a"
      [] c = "B" -> "b"
      [] c = "C" -> "c"
      [] OTHER -> c
Lower(s) == [i \in DOMAIN s |-> LowerChar(s[i])]

Range(s) == {s[i] : i \in DOMAIN s}

-----------------------------------------------------------------------------
(* The primary provider's answer to GET /movie/{id}, as safe_get returns it *)
\* status "none": requests raised and safe_get returned None
Responses ==
    {[status |-> s, json_ok |-> TRUE, poster_path |-> NoValue] : s \in {"none", "404", "500"}}
    \cup {[status |-> "200", json_ok |-> FALSE, poster_path |-> NoValue]}
    \cup {[status |-> "200", json_ok |-> TRUE, poster_path |-> p] : p \in PosterPaths \cup {NoValue}}

Ok(r) == r.status = "200"

\* the test that takes every answer other than a success for the 404
NotFoundOrFailed(r) == r.status # "none" /\ ~Ok(r)

\* lines 73 and 298: r.status_code == 404
NotFound(r) == r.status = "404"
NoAnswer == CHOOSE r \in Responses : r.status = "none"

Req(ep, id) == [ep |-> ep, n |-> id.n]

\* how the handlers read an answer to GET /movie/{id}: the 404, a success
\* with a poster path, a success without one, or a failure of any other kind
\* (no answer, another status, a body that is not JSON)
Kind(r) ==
    IF r.status = "404" THEN "404"
    ELSE IF Ok(r) /\ r.json_ok
         THEN IF r.poster_path # NoValue THEN "poster" ELSE "ok"
    ELSE "transient"

\* the request for the details of id was sent and answered r
Asked(st, id, r) ==
    [st EXCEPT !.sent = Append(@, Req("movie", id)),
               !.got = Append(@, [n |-> id.n, kind |-> Kind(r)])]

-----------------------------------------------------------------------------
(* The blacklist file *)

\* what happens to one write of the file
SaveOutcomes == {"ok", "fail", "partial", "crash"}

NoFile == [state |-> "absent", ids |-> <<>>]
Truncated == [state |-> "corrupt", ids |-> <<>>]

\* list(bad_ids): the elements in some order
ToList(S) ==
    CHOOSE s \in [1..Cardinality(S) -> S] : Range(s) = S

load_bad_ids(file) ==
    IF file.state = "ok" THEN Range(file.ids) ELSE {}

\* open(path, "wb") empties the file before pickle.dump writes it
save_bad_ids(bad_ids, file, outcome) ==
    CASE outcome = "ok" -> [state |-> "ok", ids |-> ToList(bad_ids)]
      [] outcome = "fail" -> file
      [] OTHER -> Truncated

-----------------------------------------------------------------------------
(* The state a handler threads through its calls *)

St(cache, bad, file) ==
    [cache |-> cache, bad |-> bad, file |-> file, sent |-> <<>>, got |-> <<>>,
     crashed |-> FALSE, raised |-> FALSE, ret |-> NoValue]

Here == St(poster_cache, bad_tmdb_ids, bad_file)

Put(cache, key, v) ==
    [k \in DOMAIN cache \cup {key} |-> IF k = key THEN v ELSE cache[k]]

EmptyCache == [k \in {} |-> NoValue]

-----------------------------------------------------------------------------
(* fetch_poster, lines 50-92.  r is the provider's answer should the call   *)
(* ask, sv the fate of the write of the blacklist file should it write.     *)

\* the cache that keeps posters only
CachedIfPoster(st, key, v) ==
    IF v = NoValue THEN [st EXCEPT !.ret = v]
    ELSE [st EXCEPT !.cache = Put(st.cache, key, v), !.ret = v]

Cached(st, key, v) == [st EXCEPT !.cache = Put(st.cache, key, v), !.ret = v]

\* lines 73-78: blacklist, write the file, cache "no poster"
Blacklist(st, key, sv) ==
    LET bad == st.bad \cup {key}
        st1 == [st EXCEPT !.bad = bad, !.file = save_bad_ids(bad, st.file, sv)]
    IN  [st1 EXCEPT !.crashed = (sv = "crash")]

\* lines 84-88: the poster path made absolute
FullPoster(poster_path) ==
    IF StartsWithSlash(poster_path) THEN W500 \o poster_path ELSE poster_path

\* whether fetch_poster gets as far as line 69 and asks the provider
Asks(movie_id, st) ==
    /\ ~Falsy(movie_id)
    /\ ToKey(movie_id) \notin DOMAIN st.cache
    /\ ToKey(movie_id) \notin st.bad
    /\ TMDB_API_KEY # NoValue

fetch_poster(movie_id, st, r, sv) ==
    IF Falsy(movie_id) THEN [st EXCEPT !.ret = NoValue]
    ELSE
    LET key == ToKey(movie_id) IN
    IF key \in DOMAIN st.cache THEN [st EXCEPT !.ret = st.cache[key]]
    ELSE IF key \in st.bad THEN Cached(st, key, NoValue)
    ELSE IF TMDB_API_KEY = NoValue THEN Cached(st, key, NoValue)
    ELSE
    LET st1 == Asked(st, key, r) IN
    IF r.status = "none" THEN Cached(st1, key, NoValue)
    ELSE IF NotFound(r) THEN
        LET st2 == Blacklist(st1, key, sv) IN
        IF st2.crashed THEN st2 ELSE Cached(st2, key, NoValue)
    ELSE IF ~Ok(r) THEN Cached(st1, key, NoValue)
    ELSE IF r.json_ok /\ r.poster_path # NoValue THEN
        Cached(st1, key, FullPoster(r.poster_path))
    ELSE Cached(st1, key, NoValue)

-----------------------------------------------------------------------------
(* Rows of the catalog *)

\* a missing number (NaN) is NoValue, a number v is <<v>>
Num(v) == <<v>>
IsNum(x) == x # NoValue

HasCol(c) == c \in columns

\* lines 114-121, for the poster column
extract_existing_poster(row) ==
    IF HasCol("poster") /\ row.poster # NoValue
    THEN IF StartsWithSlash(row.poster) THEN W500 \o row.poster ELSE row.poster
    ELSE NoValue

\* lines 129-132: "N/A" when the attribute is missing, else the number formatted
RatingStr(row) ==
    IF ~HasCol("vote_average") THEN [tag |-> "N/A", v |-> 0]
    ELSE IF IsNum(row.vote_average) THEN [tag |-> "num", v |-> row.vote_average[1]]
    ELSE [tag |-> "nan", v |-> 0]

\* line 137: movie_series.year raises AttributeError when the row has no year
YearRaises == ~HasCol("year")
YearOut(row) ==
    IF IsNum(row.year) THEN [tag |-> "num", v |-> row.year[1]]
    ELSE [tag |-> "N/A", v |-> 0]

Details(row, poster) ==
    [title |-> row.title, poster |-> poster, movie_id |-> row.movie_id,
     year |-> YearOut(row), rating |-> RatingStr(row)]

\* lines 123-139; .ret is the returned dict, .raised says line 137 raised
get_movie_details(row, st, r, sv) ==
    LET p1 == extract_existing_poster(row)
        st1 == IF p1 # NoValue THEN [st EXCEPT !.ret = p1]
               ELSE fetch_poster(row.movie_id, st, r, sv)
        p2 == IF st1.ret # NoValue THEN st1.ret ELSE PLACEHOLDER_POSTER
    IN  IF st1.crashed THEN st1
        ELSE IF YearRaises THEN [st1 EXCEPT !.raised = TRUE, !.ret = NoValue]
        ELSE [st1 EXCEPT !.ret = Details(row, p2)]

\* get_movie_details over the rows idx, in order, as the loops of lines
\* 153-155, 166-167 and 182-183 do; rs and svs give the answer and the fate
\* of the write per identifier.  .ret is the list built so far.
RECURSIVE DetailsOfAll(_, _, _, _, _)
DetailsOfAll(idx, st, rs, svs, out) ==
    IF idx = <<>> THEN [st EXCEPT !.ret = out]
    ELSE
    LET row == movies[Head(idx)]
        k == row.movie_id.n
        st1 == get_movie_details(row, st,
                   IF k \in DOMAIN rs THEN rs[k] ELSE NoAnswer,
                   IF k \in DOMAIN svs THEN svs[k] ELSE "ok")
    IN  IF st1.crashed \/ st1.raised THEN st1
        ELSE DetailsOfAll(Tail(idx), st1, rs, svs, Append(out, st1.ret))

-----------------------------------------------------------------------------
(* movie_info, lines 243-376.  Of the details it returns the model keeps   *)
(* the poster; r1 answers its own GET /movie/{id}, r2 the one fetch_poster *)
(* may send, sv1 and sv2 are the fates of the two writes of the file.      *)

\* the first of the rows S, 0 when there is none (.iloc[0] raising)
FirstRow(S) ==
    IF S = {} THEN 0 ELSE CHOOSE i \in S : \A j \in S : i <= j

\* lines 253-263
InfoRow(movie_id, title) ==
    LET ById == {k \in DOMAIN movies : movies[k].movie_id = movie_id}
        ByTitle == {k \in DOMAIN movies : Lower(movies[k].title) = Lower(title)}
        i == IF Falsy(movie_id) THEN 0 ELSE FirstRow(ById)
    IN  IF i = 0 /\ title # NoValue THEN FirstRow(ByTitle) ELSE i

\* line 277: the provider is asked when the identifier is not blacklisted
InfoAsks(movie_id, st) ==
    ~Falsy(movie_id) /\ movie_id \notin st.bad /\ TMDB_API_KEY # NoValue

\* lines 282-302: the details request and what it leaves
InfoDetails(movie_id, st, r1, sv1) ==
    LET st1 == Asked(st, movie_id, r1) IN
    IF Ok(r1) THEN
        IF r1.json_ok /\ r1.poster_path # NoValue
        THEN [st1 EXCEPT !.ret = W500 \o r1.poster_path]
        ELSE st1
    ELSE IF r1.status # "none" /\ NotFound(r1) THEN
        LET bad == st1.bad \cup {movie_id} IN
        [st1 EXCEPT !.bad = bad, !.file = save_bad_ids(bad, st1.file, sv1),
                    !.crashed = (sv1 = "crash")]
    ELSE st1

\* lines 304-355: credits, videos and watch providers are asked for in turn
InfoExtras(movie_id, st) ==
    [st EXCEPT !.sent = @ \o <<Req("credits", movie_id), Req("videos", movie_id),
                               Req("providers", movie_id)>>]

\* lines 265-362: up to the poster of the row; .ret is the poster so far
InfoFirst(movie_id, title, st, r1, sv1) ==
    LET i == InfoRow(movie_id, title)
        st0 == [st EXCEPT !.ret = NoValue]
        st1 == IF InfoAsks(movie_id, st)
               THEN LET d == InfoDetails(movie_id, st0, r1, sv1) IN
                    IF d.crashed THEN d ELSE InfoExtras(movie_id, d)
               ELSE st0
    IN  IF st1.crashed \/ st1.ret # NoValue \/ i = 0 THEN st1
        ELSE [st1 EXCEPT !.ret = extract_existing_poster(movies[i])]

\* lines 363-368
InfoLast(movie_id, st1, r2, sv2) ==
    LET st2 == IF st1.crashed \/ st1.ret # NoValue THEN st1
               ELSE fetch_poster(movie_id, st1, r2, sv2)
    IN  IF st2.crashed \/ st2.ret # NoValue THEN st2
        ELSE [st2 EXCEPT !.ret = PLACEHOLDER_POSTER]

movie_info(movie_id, title, st, r1, sv1, r2, sv2) ==
    InfoLast(movie_id, InfoFirst(movie_id, title, st, r1, sv1), r2, sv2)

-----------------------------------------------------------------------------
(* The record of a call *)

NumsOf(ids) == {id.n : id \in ids}

\* what a call leaves in the program's state; a process that died keeps nothing
Commit(st) ==
    /\ bad_tmdb_ids' = IF st.crashed THEN {} ELSE st.bad
    /\ poster_cache' = IF st.crashed THEN EmptyCache ELSE st.cache
    /\ bad_file' = st.file
    /\ running' = ~st.crashed
    /\ prev404' = IF st.crashed THEN NumsOf(bad_tmdb_ids) ELSE prev404
    /\ UNCHANGED <<loaded, movies, columns, similarity, threads>>

\* the poster the cache holds for the identifier
CachedPoster(id) ==
    IF ToKey(id) \in DOMAIN poster_cache THEN poster_cache[ToKey(id)] ELSE NoValue

\* poster: the poster the call returned, alone or in its dict
CallRec(op, id, st, poster) ==
    [op |-> op, id |-> id, sent |-> st.sent, got |-> st.got,
     ret |-> IF st.crashed \/ st.raised THEN NoValue ELSE st.ret,
     poster |-> IF st.crashed \/ st.raised THEN NoValue ELSE poster,
     raised |-> st.raised, crashed |-> st.crashed,
     \* the handler answered with an error response (status 500)
     error |-> FALSE,
     \* what the file held when the write the process died in began
     file0 |-> IF st.crashed THEN load_bad_ids(bad_file) ELSE {},
     \* of a ranking or a listing: its argument, the row it matched, the rows it chose
     arg |-> NoValue, n |-> 0, q |-> 0, rows |-> <<>>]

NoCall(op) ==
    [op |-> op, id |-> IdNone, sent |-> <<>>, got |-> <<>>, ret |-> NoValue,
     poster |-> NoValue,
     raised |-> FALSE, crashed |-> FALSE, error |-> FALSE, file0 |-> {},
     arg |-> NoValue, n |-> 0, q |-> 0, rows |-> <<>>]

\* the answers and fates that matter: one when nothing is asked or written
Answers(asks) == IF asks THEN Responses ELSE {NoAnswer}
SavesFor(r, saves) == IF r.status = "404" THEN saves ELSE {"ok"}

-----------------------------------------------------------------------------
(* The calls of the resolution pipeline, for the identifiers ids a caller  *)
(* passes and the fates saves a write of the file may meet.                *)

FetchPosterStep(ids, saves) ==
    /\ running
    /\ \E id \in ids : \E r \in Answers(Asks(id, Here)) : \E sv \in SavesFor(r, saves) :
        LET st == fetch_poster(id, Here, r, sv) IN
        /\ Commit(st)
        /\ call' = CallRec("fetch_poster", id, st, st.ret)

GetMovieDetailsStep(saves) ==
    /\ running
    /\ \E i \in DOMAIN movies :
       \E r \in Answers(extract_existing_poster(movies[i]) = NoValue
                        /\ Asks(movies[i].movie_id, Here)) :
       \E sv \in SavesFor(r, saves) :
        LET st == get_movie_details(movies[i], Here, r, sv) IN
        /\ Commit(st)
        /\ call' = CallRec("get_movie_details", movies[i].movie_id, st,
                           IF st.crashed \/ st.raised THEN NoValue ELSE st.ret.poster)

InfoTitles == {NoValue, <<"a", "x">>}

\* lines 245-246: {"error": "movies not loaded"} with status 500
NotLoaded(op, id) ==
    /\ UNCHANGED <<loaded, movies, columns, similarity, bad_tmdb_ids,
                   poster_cache, bad_file, running, prev404, threads>>
    /\ call' = [NoCall(op) EXCEPT !.id = id, !.error = TRUE]

MovieInfoStep(ids, saves) ==
    /\ running
    /\ \E id \in ids, title \in InfoTitles :
       IF ~loaded THEN NotLoaded("movie_info", id) ELSE
       \E r1 \in Answers(InfoAsks(id, Here)) : \E sv1 \in SavesFor(r1, saves) :
        LET st1 == InfoFirst(id, title, Here, r1, sv1) IN
        \E r2 \in Answers(~st1.crashed /\ st1.ret = NoValue /\ Asks(id, st1)) :
        \E sv2 \in SavesFor(r2, saves) :
            LET st == InfoLast(id, st1, r2, sv2) IN
            /\ Commit(st)
            /\ call' = [CallRec("movie_info", id, st, st.ret) EXCEPT !.arg = title]

\* a new process starts after the last one ended or died: lines 45 and 48
Restart ==
    /\ bad_tmdb_ids' = load_bad_ids(bad_file)
    /\ poster_cache' = EmptyCache
    /\ running' = TRUE
    /\ prev404' = IF running THEN NumsOf(bad_tmdb_ids) ELSE prev404
    /\ call' = [NoCall("restart") EXCEPT
                  !.crashed = ~running,
                  !.file0 = IF running THEN {} ELSE call.file0]
    /\ UNCHANGED <<loaded, movies, columns, similarity, bad_file, threads>>

-----------------------------------------------------------------------------
(* Request threads.  The server answers each request on a thread of its    *)
(* own and the module's dictionaries are shared without a lock, so that a  *)
(* fetch_poster call is a sequence of steps, one per access to the shared  *)
(* state, and the steps of two calls interleave.                           *)

Threads == 1..MaxThreads

\* pc: where the call is; key: line 55; asked: the call sent the request of
\* line 69; val: the value it is about to store; snap: list(bad_ids) of line
\* 41; ret: the value it returned
Idle ==
    [pc |-> "idle", key |-> IdNone, asked |-> FALSE, val |-> NoValue,
     snap |-> <<>>, ret |-> NoValue]

NoThreads == [t \in Threads |-> Idle]

At(t, pc) == threads[t].pc = pc

Move(t, rec) ==
    /\ threads' = [threads EXCEPT ![t] = rec]
    /\ UNCHANGED <<loaded, movies, columns, similarity, running, prev404, call>>

\* lines 52-59: the call starts and reads poster_cache
Begin ==
    \E t \in Threads, id \in NumArgs :
        /\ At(t, "idle")
        /\ Move(t, IF Falsy(id) THEN [Idle EXCEPT !.pc = "done"]
                   ELSE IF ToKey(id) \in DOMAIN poster_cache
                   THEN [Idle EXCEPT !.pc = "done", !.key = ToKey(id),
                                     !.ret = poster_cache[ToKey(id)]]
                   ELSE [Idle EXCEPT !.pc = "miss", !.key = ToKey(id)])
        /\ UNCHANGED <<bad_tmdb_ids, poster_cache, bad_file>>

\* lines 60-69: the call reads bad_tmdb_ids and, the key not in it, sends the
\* request
TestBad ==
    \E t \in Threads :
        /\ At(t, "miss")
        /\ Move(t, IF threads[t].key \in bad_tmdb_ids \/ TMDB_API_KEY = NoValue
                   THEN [threads[t] EXCEPT !.pc = "store", !.val = NoValue]
                   ELSE [threads[t] EXCEPT !.pc = "asked", !.asked = TRUE])
        /\ UNCHANGED <<bad_tmdb_ids, poster_cache, bad_file>>

\* lines 69-73, 79-86: the answer arrives and the call reads it
Answer ==
    \E t \in Threads, r \in Responses :
        /\ At(t, "asked")
        /\ Move(t, IF r.status # "none" /\ NotFound(r)
                   THEN [threads[t] EXCEPT !.pc = "add"]
                   ELSE [threads[t] EXCEPT !.pc = "store", !.val =
                            IF Ok(r) /\ r.json_ok /\ r.poster_path # NoValue
                            THEN FullPoster(r.poster_path) ELSE NoValue])
        /\ UNCHANGED <<bad_tmdb_ids, poster_cache, bad_file>>

\* line 75
Add ==
    \E t \in Threads :
        /\ At(t, "add")
        /\ bad_tmdb_ids' = bad_tmdb_ids \cup {threads[t].key}
        /\ Move(t, [threads[t] EXCEPT !.pc = "snap"])
        /\ UNCHANGED <<poster_cache, bad_file>>

\* line 41: list(bad_ids), the first argument of pickle.dump
Snapshot ==
    \E t \in Threads :
        /\ At(t, "snap")
        /\ Move(t, [threads[t] EXCEPT !.pc = "open", !.snap = ToList(bad_tmdb_ids)])
        /\ UNCHANGED <<bad_tmdb_ids, poster_cache, bad_file>>

\* line 41: open(BAD_IDS_PATH, "wb"), the second argument, empties the file
OpenFile ==
    \E t \in Threads :
        /\ At(t, "open")
        /\ bad_file' = Truncated
        /\ Move(t, [threads[t] EXCEPT !.pc = "dump"])
        /\ UNCHANGED <<bad_tmdb_ids, poster_cache>>

\* line 41: pickle.dump writes the list from the start of the file
Dump ==
    \E t \in Threads :
        /\ At(t, "dump")
        /\ bad_file' = [state |-> "ok", ids |-> threads[t].snap]
        /\ Move(t, [threads[t] EXCEPT !.pc = "store", !.val = NoValue])
        /\ UNCHANGED <<bad_tmdb_ids, poster_cache>>

\* lines 61-62, 71-72, 77-78, 80-81, 87-88, 91-92: store and return
Store ==
    \E t \in Threads :
        /\ At(t, "store")
        /\ poster_cache' = Put(poster_cache, threads[t].key, threads[t].val)
        /\ Move(t, [threads[t] EXCEPT !.pc = "done", !.ret = threads[t].val])
        /\ UNCHANGED <<bad_tmdb_ids, bad_file>>

\* the request is answered and the thread is free for the next one
Return ==
    \E t \in Threads :
        /\ At(t, "done")
        /\ Move(t, Idle)
        /\ UNCHANGED <<bad_tmdb_ids, poster_cache, bad_file>>

-----------------------------------------------------------------------------
(* The catalog of the resolution specifications: one row per identifier,   *)
(* the identifiers stored as numbers or as strings; the second row has a   *)
(* poster of its own.                                                      *)

AllColumns == {"year", "vote_average", "genres", "poster"}

\* "A", "Ax", "Axx", ...
NameOf(i) == [j \in 1..i |-> IF j = 1 THEN "A" ELSE "x"]

Row(title, id, year, vote, genres, poster) ==
    [title |-> title, movie_id |-> id, year |-> year, vote_average |-> vote,
     genres |-> genres, poster |-> poster]

NoGenres == [list |-> TRUE, items |-> <<>>]

CacheCatalog(rep) ==
    [i \in Nums |-> Row(NameOf(i), [t |-> rep, n |-> i], Num(1999), Num(70), NoGenres,
                        IF i = 2 THEN <<"/", "e1">> ELSE NoValue)]

NoSimilarity == <<>>

InitRun ==
    /\ loaded = TRUE
    /\ bad_file = NoFile
    /\ bad_tmdb_ids = load_bad_ids(bad_file)
    /\ poster_cache = EmptyCache
    /\ running = TRUE
    /\ prev404 = {}
    /\ call = NoCall("start")
    /\ threads = NoThreads

(* One run of the process: every identifier form, the disk in order *)

Init ==
    /\ movies \in {CacheCatalog(rep) : rep \in {"int", "str"}}
    /\ columns = AllColumns
    /\ similarity = NoSimilarity
    /\ InitRun

FetchPosterCall == FetchPosterStep(IdArgs, {"ok"})
GetMovieDetailsCall == GetMovieDetailsStep({"ok"})
MovieInfoCall == MovieInfoStep(IdArgs, {"ok"})

Next ==
    \/ FetchPosterCall
    \/ GetMovieDetailsCall
    \/ MovieInfoCall

Spec == Init /\ [][Next]_vars

(* Runs and restarts: numeric identifiers, writes that succeed, fail, stop *)
(* half way, or are cut by the death of the process                        *)

DurableInit ==
    /\ movies = CacheCatalog("int")
    /\ columns = AllColumns
    /\ similarity = NoSimilarity
    /\ InitRun

FetchPosterWrite == FetchPosterStep(NumArgs, SaveOutcomes)
GetMovieDetailsWrite == GetMovieDetailsStep(SaveOutcomes)
MovieInfoWrite == MovieInfoStep(NumArgs, SaveOutcomes)

DurableNext ==
    \/ FetchPosterWrite
    \/ GetMovieDetailsWrite
    \/ MovieInfoWrite
    \/ Restart

DurableSpec == DurableInit /\ [][DurableNext]_vars

-----------------------------------------------------------------------------
(* recommend, lines 141-156 *)

\* the lookup that forgets the exact match
RecommendIndexAnyCase(movie) ==
    LET AnyCase == {k \in DOMAIN movies : Lower(movies[k].title) = Lower(movie)}
    IN  FirstRow(AnyCase)

\* lines 144-150: the exact title first, then the title whatever its case;
\* 0 when both lookups raise
RecommendIndex(movie) ==
    LET Exact == {k \in DOMAIN movies : movies[k].title = movie}
        AnyCase == {k \in DOMAIN movies : Lower(movies[k].title) = Lower(movie)}
    IN  IF FirstRow(Exact) # 0 THEN FirstRow(Exact) ELSE FirstRow(AnyCase)

\* sorted(..., reverse=True, key=score) is stable: a pair goes behind every
\* pair already placed whose score is not smaller
RECURSIVE InsertDesc(_, _, _)
InsertDesc(j, placed, score) ==
    IF placed = <<>> THEN <<j>>
    ELSE IF score[Head(placed)] >= score[j]
         THEN <<Head(placed)>> \o InsertDesc(j, Tail(placed), score)
         ELSE <<j>> \o placed

RECURSIVE SortDesc(_, _, _)
SortDesc(idx, placed, score) ==
    IF idx = <<>> THEN placed
    ELSE SortDesc(Tail(idx), InsertDesc(Head(idx), placed, score), score)

Indices(n) == [i \in 1..n |-> i]

\* line 151
Distances(index) ==
    SortDesc(Indices(Len(similarity[index])), <<>>, similarity[index])

\* seq[from:to] of Python, from and to counted from 0
Slice(seq, from, to) ==
    SubSeq(seq, from + 1, IF to < Len(seq) THEN to ELSE Len(seq))

\* line 153: distances[1:6]
Recommended(index) == Slice(Distances(index), SkipFirst, SkipFirst + TopK)

\* the numbers the rows idx would ask the provider about
AskedBy(idx) ==
    {movies[idx[i]].movie_id.n : i \in {j \in DOMAIN idx :
        /\ (YearRaises => j = 1)
        /\ extract_existing_poster(movies[idx[j]]) = NoValue
        /\ Asks(movies[idx[j]].movie_id, Here)}}

\* a listing: get_movie_details over the rows idx, whatever the provider
\* answers for each identifier asked about
Listing(op, arg, n, q, idx, saves) ==
    \E rs \in [AskedBy(idx) -> Responses] :
    \E svs \in [{k \in DOMAIN rs : rs[k].status = "404"} -> saves] :
        LET st == DetailsOfAll(idx, Here, rs, svs, <<>>) IN
        /\ Commit(st)
        /\ call' = [CallRec(op, IdNone, st, NoValue) EXCEPT
                      !.arg = arg, !.n = n, !.q = q, !.rows = idx]

\* the titles a caller asks about: none, in the catalog, in another case, unknown
Queries == {NoValue, <<"a">>, <<"A">>, <<"b">>, <<"B">>, <<"c">>}

RecommendStep(saves) ==
    /\ running
    /\ \E movie \in Queries :
        LET index == IF ~loaded \/ movie = NoValue THEN 0
                     ELSE RecommendIndex(movie) IN
        Listing("recommend", movie, TopK, index,
                IF index = 0 THEN <<>> ELSE Recommended(index), saves)

-----------------------------------------------------------------------------
(* The catalogs of the ranking specification: up to MaxRank rows titled    *)
(* a, A, b, a, ...; the second row has an identifier; every row of the     *)
(* matrix is the same row of scores, so that the score of a record with    *)
(* itself is any of them.                                                  *)

Scores == {2, 9, 10}
TitleCycle == << <<"a">>, <<"A">>, <<"b">> >>

RankCatalog(n) ==
    [i \in 1..n |-> Row(TitleCycle[((i - 1) % 3) + 1],
                        IF i = 2 THEN IntId(1) ELSE IdNone,
                        Num(1999), Num(70), NoGenres, NoValue)]

RankInit ==
    /\ \E n \in 1..MaxRank :
        /\ movies = RankCatalog(n)
        /\ \E base \in [1..n -> Scores] : similarity = [i \in 1..n |-> base]
    /\ columns = AllColumns
    /\ InitRun

RecommendCall == RecommendStep({"ok"})

RankNext ==
    \/ RecommendCall

RankSpec == RankInit /\ [][RankNext]_vars

-----------------------------------------------------------------------------
(* get_curated_movies and get_movies_by_genre, lines 158-184 *)

\* a call that raised before it resolved any row
Raised(op, arg, n) ==
    /\ UNCHANGED <<loaded, movies, columns, similarity, bad_tmdb_ids,
                   poster_cache, bad_file, running, prev404, threads>>
    /\ call' = [NoCall(op) EXCEPT !.arg = arg, !.n = n, !.raised = TRUE]

Field(row, col) == IF col = "year" THEN row.year ELSE row.vote_average

\* the orders sort_values(col, ascending=False) may leave the rows S in:
\* non-increasing, rows of equal value in any order, NaN last in catalog order
SortedDesc(S, col) ==
    {s \in [1..Cardinality(S) -> S] :
        /\ Range(s) = S
        /\ \A i, j \in DOMAIN s : i < j =>
            LET a == Field(movies[s[i]], col)
                b == Field(movies[s[j]], col)
            IN  IF IsNum(a) /\ IsNum(b) THEN a[1] >= b[1]
                ELSE IF ~IsNum(a) /\ ~IsNum(b) THEN s[i] < s[j]
                ELSE IsNum(a)}

\* the filter that lets a rating of 0 through
RatingKeptFromZero(v) == IsNum(v) /\ v[1] >= 0 /\ v[1] <= MaxRating

\* line 163: the ratings the top-rated list keeps
RatingKept(v) == IsNum(v) /\ v[1] > 0 /\ v[1] <= MaxRating

\* lines 161-164: the rows left to sort
CuratedRows(sort_by) ==
    {i \in DOMAIN movies :
        /\ sort_by = "vote_average" => RatingKept(movies[i].vote_average)
        /\ IsNum(Field(movies[i], sort_by))}

\* df.head(n)
Head_(s, n) == SubSeq(s, 1, IF n < Len(s) THEN n ELSE Len(s))

GetCuratedMoviesStep(saves) ==
    /\ running
    /\ \E sort_by \in {"vote_average", "year"}, n \in {2, DefaultN} :
        IF ~loaded THEN
            Listing("get_curated_movies", <<sort_by>>, n, 0, <<>>, saves)
        ELSE IF ~HasCol("vote_average") /\ sort_by = "vote_average" THEN
            Raised("get_curated_movies", <<sort_by>>, n)
        ELSE IF ~HasCol(sort_by) THEN
            Raised("get_curated_movies", <<sort_by>>, n)
        ELSE
            \E s \in SortedDesc(CuratedRows(sort_by), sort_by) :
                Listing("get_curated_movies", <<sort_by>>, n, 0, Head_(s, n), saves)

\* line 174: the lambda answers False for whatever is not a list, and does
\* not raise, so that line 177 never runs
GenreMask(x, genre_name) ==
    IF x.list THEN genre_name \in Range(x.items) ELSE FALSE

GenreRows(mv, genre_name) ==
    {i \in DOMAIN mv : GenreMask(mv[i].genres, genre_name)}

GetMoviesByGenreStep(saves) ==
    /\ running
    /\ \E genre_name \in {"Action", "Comedy"}, n \in {2, DefaultN} :
        IF ~loaded \/ ~HasCol("genres") THEN
            Listing("get_movies_by_genre", <<genre_name>>, n, 0, <<>>, saves)
        ELSE IF ~HasCol("vote_average") THEN
            Raised("get_movies_by_genre", <<genre_name>>, n)
        ELSE
            \E s \in SortedDesc(GenreRows(movies, genre_name), "vote_average") :
                Listing("get_movies_by_genre", <<genre_name>>, n, 0, Head_(s, n), saves)

-----------------------------------------------------------------------------
(* The catalogs of the listing specification: up to MaxRows rows without   *)
(* identifiers, any rating per row, the genres of the whole column stored  *)
(* as lists or as delimited strings; a catalog of one row lacks any of the *)
(* optional columns.                                                       *)

Ratings == {NoValue, Num(0), Num(55), Num(MaxRating), Num(MaxRating + 1)}

\* "Action|Drama" as tokens
RECURSIVE Join(_)
Join(labels) ==
    IF Len(labels) <= 1 THEN labels
    ELSE <<Head(labels), "|">> \o Join(Tail(labels))

Split(text) == SelectSeq(text, LAMBDA tok : tok # "|")

Stored(labels, asList) ==
    [list |-> asList, items |-> IF asList THEN labels ELSE Join(labels)]

ListCatalog(n, votes, firstLabels, asList, cols) ==
    [i \in 1..n |->
        Row(NameOf(i), IdNone,
            IF "year" \notin cols \/ i = MaxRows THEN NoValue ELSE Num(1990 + i),
            IF "vote_average" \in cols THEN votes[i] ELSE NoValue,
            IF "genres" \notin cols THEN NoGenres
            ELSE Stored(IF i = 1 THEN firstLabels ELSE <<"Action", "Drama">>, asList),
            NoValue)]

ListInit ==
    /\ \E n \in 1..MaxRows, cols \in SUBSET AllColumns :
        /\ n > 1 => cols = AllColumns
        /\ columns = cols
        /\ \E votes \in [1..n -> Ratings], asList \in BOOLEAN,
              firstLabels \in {<<"Drama">>, <<"Action", "Drama">>} :
            movies = ListCatalog(n, votes, firstLabels, asList, cols)
    /\ similarity = NoSimilarity
    /\ InitRun

GetCuratedMoviesCall == GetCuratedMoviesStep({"ok"})
GetMoviesByGenreCall == GetMoviesByGenreStep({"ok"})
GetMovieDetailsOfRow == GetMovieDetailsStep({"ok"})

ListNext ==
    \/ GetCuratedMoviesCall
    \/ GetMoviesByGenreCall
    \/ GetMovieDetailsOfRow

ListSpec == ListInit /\ [][ListNext]_vars

-----------------------------------------------------------------------------
(* A process whose pickles loaded or failed to load (lines 95-111): in the *)
(* second case movies and similarity are None; the blacklist is loaded     *)
(* from its file either way (line 45).                                     *)

OneBadFile == [state |-> "ok", ids |-> <<IntId(1)>>]

LoadInit ==
    /\ loaded \in BOOLEAN
    /\ IF loaded
       THEN /\ movies = CacheCatalog("int")
            /\ columns = AllColumns
            /\ \E base \in [Nums -> Scores] : similarity = [i \in Nums |-> base]
       ELSE /\ movies = <<>>
            /\ columns = {}
            /\ similarity = NoSimilarity
    /\ bad_file \in {NoFile, OneBadFile}
    /\ bad_tmdb_ids = load_bad_ids(bad_file)
    /\ poster_cache = EmptyCache
    /\ running = TRUE
    /\ prev404 = {}
    /\ call = NoCall("start")
    /\ threads = NoThreads

FetchPosterAny == FetchPosterStep(NumArgs, {"ok"})
RecommendAny == RecommendStep({"ok"})
GetCuratedMoviesAny == GetCuratedMoviesStep({"ok"})
GetMoviesByGenreAny == GetMoviesByGenreStep({"ok"})
MovieInfoAny == MovieInfoStep(NumArgs, {"ok"})

LoadNext ==
    \/ FetchPosterAny
    \/ RecommendAny
    \/ GetCuratedMoviesAny
    \/ GetMoviesByGenreAny
    \/ MovieInfoAny

LoadSpec == LoadInit /\ [][LoadNext]_vars

-----------------------------------------------------------------------------
(* Concurrent fetch_poster calls of one run over the shared dictionaries *)

RaceInit ==
    /\ movies = CacheCatalog("int")
    /\ columns = AllColumns
    /\ similarity = NoSimilarity
    /\ InitRun

RaceNext ==
    \/ Begin
    \/ TestBad
    \/ Answer
    \/ Add
    \/ Snapshot
    \/ OpenFile
    \/ Dump
    \/ Store
    \/ Return

RaceSpec == RaceInit /\ [][RaceNext]_vars

-----------------------------------------------------------------------------
(* Claims on the negative cache and the poster cache *)

ResolveOps == {"fetch_poster", "get_movie_details", "movie_info"}

\* the call sent the primary provider no request about its identifier
NoRequestFor(c) == \A i \in DOMAIN c.sent : c.sent[i].n # c.id.n

\* a catalog row of the identifier carries a poster of its own
OwnPoster(id) ==
    \E i \in DOMAIN movies :
        movies[i].movie_id.n = id.n /\ extract_existing_poster(movies[i]) # NoValue

\* C1: within one run, once the provider has answered 404 for an identifier
\* and the identifier is in bad_tmdb_ids, no later call of fetch_poster,
\* get_movie_details or movie_info for it, passed as the number or as the
\* numeric string, sends the provider a request for it.
C1_NoRequestOnceNotFound ==
    [][(call'.op \in ResolveOps /\ call'.id.n \in NumsOf(bad_tmdb_ids))
          => NoRequestFor(call')]_vars

\* C3: once fetch_poster has obtained a poster URL for an identifier from the
\* provider, a second resolution of the identifier in the same run, through
\* fetch_poster, get_movie_details or movie_info, sends no request for it and
\* returns the same poster (stated for records with no poster of their own).
C3_SecondResolutionFromCache ==
    [][(/\ call'.op \in ResolveOps
        /\ CachedPoster(call'.id) # NoValue
        /\ ~OwnPoster(call'.id))
          => (NoRequestFor(call') /\ call'.poster = CachedPoster(call'.id))]_vars

\* C2: an identifier the process before this one had been answered 404 for
\* (by a call that returned) resolves in the fresh process to no poster, the
\* placeholder, without a request, also when the write of the file had failed
\* (stated for records with no poster of their own).
C2_NotFoundSurvivesRestart ==
    [][(/\ call'.op \in ResolveOps
        /\ call'.id.n \in prev404
        /\ ~OwnPoster(call'.id))
          => (call'.sent = <<>> /\ call'.poster \in {NoValue, PLACEHOLDER_POSTER})]_vars

\* C9: when the process dies inside the write of save_bad_ids, the blacklist
\* load_bad_ids loads at the next start holds every identifier the file held
\* before that write began.
C9_FlushAtomic ==
    (call.op = "restart" /\ call.crashed) => call.file0 \subseteq bad_tmdb_ids

-----------------------------------------------------------------------------
(* Claims on recommend *)

Least(S) == CHOOSE x \in S : \A y \in S : x <= y

\* row i goes before row k in the ranking of the scores of row q
Before(q, i, k) ==
    \/ similarity[q][i] > similarity[q][k]
    \/ similarity[q][i] = similarity[q][k] /\ i < k

\* rows is the ranking of the records other than q, cut to the first TopK
RanksOthers(rows, q) ==
    LET n == Len(movies) IN
    /\ Len(rows) = IF n - 1 < TopK THEN n - 1 ELSE TopK
    /\ \A i \in DOMAIN rows : rows[i] \in (1..n) \ {q}
    /\ \A i, j \in DOMAIN rows : i < j => Before(q, rows[i], rows[j])
    /\ \A k \in (1..n) \ ({q} \cup Range(rows)) :
           \A i \in DOMAIN rows : Before(q, rows[i], k)

\* C4: whatever the scores of the matrix, no record recommend returns for a
\* title of the catalog is the queried record itself.
C4_NeverRecommendsQuery ==
    (call.op = "recommend" /\ call.q # 0)
        => \A i \in DOMAIN call.rows : call.rows[i] # call.q

\* C5: for a title of the catalog recommend returns the other records by
\* non-increasing score in the queried record's row, equal scores in catalog
\* order, cut to the first five.
C5_RankedOthers ==
    (call.op = "recommend" /\ call.q # 0) => RanksOthers(call.rows, call.q)

\* C6: recommend matches the title exactly first and whatever its case
\* second; for a title that matches no row either way, and for an empty
\* title, it returns the empty list, does not raise, sends no request and
\* leaves the poster cache, the blacklist and its file as they were.
C6_UnknownTitleIsEmpty ==
    [][call'.op = "recommend" =>
        LET t == call'.arg
            exact == {i \in DOMAIN movies : movies[i].title = t}
            anycase == {i \in DOMAIN movies : Lower(movies[i].title) = Lower(t)}
        IN  /\ (t # NoValue /\ exact # {}) => call'.q = Least(exact)
            /\ (t # NoValue /\ exact = {} /\ anycase # {}) => call'.q = Least(anycase)
            /\ (t = NoValue \/ anycase = {}) =>
                  /\ call'.q = 0
                  /\ call'.ret = <<>>
                  /\ ~call'.raised /\ ~call'.crashed
                  /\ call'.sent = <<>>
                  /\ UNCHANGED <<poster_cache, bad_tmdb_ids, bad_file>>]_vars

\* an unknown title was asked about while the poster cache held an entry
C6_Witness ==
    /\ call.op = "recommend"
    /\ call.arg = <<"c">>
    /\ call.q = 0
    /\ call.ret = <<>>
    /\ DOMAIN poster_cache # {}

-----------------------------------------------------------------------------
(* Claims on the listings *)

\* the catalog with every row's genres stored as a list, or as a string
GenresAs(mv, asList) ==
    [i \in DOMAIN mv |->
        [mv[i] EXCEPT !.genres =
            Stored(IF @.list THEN @.items ELSE Split(@.items), asList)]]

\* C7: get_movies_by_genre returns the same set of records whether the
\* genres of the catalog are stored as lists of labels or as the delimited
\* strings of the same labels (stated for a call whose n does not cut the list).
C7_GenreStorageAgnostic ==
    (/\ call.op = "get_movies_by_genre"
     /\ ~call.raised
     /\ call.n >= Len(movies)
     /\ HasCol("genres"))
        => /\ Range(call.rows) = GenreRows(GenresAs(movies, TRUE), call.arg[1])
           /\ Range(call.rows) = GenreRows(GenresAs(movies, FALSE), call.arg[1])

Rating(i) == movies[i].vote_average

\* C8: get_curated_movies("vote_average", n) returns the first n, or all if
\* fewer, of the records whose rating is present, above 0 and at most 10, by
\* non-increasing rating; no record of missing rating or rating <= 0 is in it.
C8_TopRated ==
    (/\ call.op = "get_curated_movies"
     /\ call.arg = <<"vote_average">>
     /\ ~call.raised)
        => LET kept == {i \in DOMAIN movies :
                          /\ Rating(i) # NoValue
                          /\ Rating(i)[1] > 0
                          /\ Rating(i)[1] <= MaxRating}
               rows == call.rows
           IN  /\ Len(rows) = IF Cardinality(kept) < call.n
                              THEN Cardinality(kept) ELSE call.n
               /\ Range(rows) \subseteq kept
               /\ \A i, j \in DOMAIN rows : i < j =>
                      /\ rows[i] # rows[j]
                      /\ Rating(rows[i])[1] >= Rating(rows[j])[1]
               /\ \A k \in kept \ Range(rows) : \A i \in DOMAIN rows :
                      Rating(rows[i])[1] >= Rating(k)[1]
               /\ Len(call.ret) = Len(rows)
               /\ \A i \in DOMAIN rows :
                      /\ call.ret[i].title = movies[rows[i]].title
                      /\ call.ret[i].rating = [tag |-> "num", v |-> Rating(rows[i])[1]]

\* two records were listed, the better first, and a record of rating 0 or
\* of no rating was left out
C8_Witness ==
    /\ call.op = "get_curated_movies"
    /\ call.arg = <<"vote_average">>
    /\ ~call.raised
    /\ Len(call.rows) = 2
    /\ Rating(call.rows[1])[1] > Rating(call.rows[2])[1]
    /\ \E i \in DOMAIN movies : Rating(i) \in {NoValue, Num(0)}

\* C10: recommend, get_curated_movies, get_movies_by_genre and
\* get_movie_details do not raise, whichever optional columns the catalog has.
C10_NeverRaises ==
    call.op \in {"recommend", "get_curated_movies", "get_movies_by_genre",
                 "get_movie_details"}
        => ~call.raised

-----------------------------------------------------------------------------
(* Claims on a catalog that failed to load *)

CatalogOps == {"recommend", "get_curated_movies", "get_movies_by_genre", "movie_info"}

\* C11: when the catalog failed to load, recommend, get_curated_movies,
\* get_movies_by_genre and movie_info return an empty or placeholder result
\* and not an error, send no request and change neither cache.
C11_UnloadedDegrades ==
    [][(~loaded /\ call'.op \in CatalogOps) =>
          /\ ~call'.error /\ ~call'.raised /\ ~call'.crashed
          /\ call'.op # "movie_info" => call'.ret = <<>>
          /\ call'.sent = <<>>
          /\ UNCHANGED <<poster_cache, bad_tmdb_ids, bad_file>>]_vars

-----------------------------------------------------------------------------
(* Claims on the resolution of one record *)

\* the call returned a result: it neither raised nor died nor answered 500
Returned(c) == ~c.raised /\ ~c.crashed /\ ~c.error

\* C12: whenever the catalog record of the identifier carries a poster of its
\* own, the poster get_movie_details and movie_info return is that poster,
\* whatever the provider answers.
C12_LocalPosterFirst ==
    (call.op \in {"get_movie_details", "movie_info"} /\ Returned(call))
        => \A i \in DOMAIN movies :
              (/\ movies[i].movie_id = call.id
               /\ extract_existing_poster(movies[i]) # NoValue)
                  => call.poster = extract_existing_poster(movies[i])

AllOps == ResolveOps \cup CatalogOps

\* the call was answered the kind k for the identifier of number n
Got(c, n, k) == \E i \in DOMAIN c.got : c.got[i].n = n /\ c.got[i].kind = k

\* C13: an identifier enters bad_tmdb_ids, and the blacklist file is written,
\* only in a call the provider answered 404 to for that identifier; no call
\* removes an identifier.
C13_OnlyNotFoundBlacklists ==
    [][(call'.op \in AllOps /\ ~call'.crashed) =>
          /\ bad_tmdb_ids \subseteq bad_tmdb_ids'
          /\ \A id \in bad_tmdb_ids' \ bad_tmdb_ids : Got(call', id.n, "404")
          /\ bad_file' # bad_file =>
                \E id \in bad_tmdb_ids' : Got(call', id.n, "404")]_vars

\* a call whose request failed for one identifier left the blacklist, which
\* held another identifier, as it was
C13_Witness ==
    /\ call.op \in ResolveOps
    /\ \E n \in Nums :
          /\ Got(call, n, "transient")
          /\ n \notin NumsOf(bad_tmdb_ids)
    /\ bad_tmdb_ids # {}
    /\ load_bad_ids(bad_file) = bad_tmdb_ids

\* C14: after fetch_poster met a failure that is not the 404 (no answer,
\* another status, a malformed body) for an identifier, neither the poster
\* cache nor the blacklist holds an entry for it.
C14_TransientNotCached ==
    (call.op = "fetch_poster" /\ Got(call, call.id.n, "transient"))
        => /\ ToKey(call.id) \notin DOMAIN poster_cache
           /\ ToKey(call.id) \notin bad_tmdb_ids

\* C15: every fetch_poster call with a non-empty identifier leaves an entry
\* for it in poster_cache, entries stay, and fetch_poster and
\* get_movie_details send a request, one, only for an identifier the cache
\* had no entry for: at most one request per identifier over a run.
C15_OneRequestPerIdentifier ==
    [][(call'.op \in ResolveOps /\ ~call'.crashed) =>
          /\ DOMAIN poster_cache \subseteq DOMAIN poster_cache'
          /\ (call'.op = "fetch_poster" /\ ~Falsy(call'.id))
                => ToKey(call'.id) \in DOMAIN poster_cache'
          /\ call'.op \in {"fetch_poster", "get_movie_details"}
                => /\ Len(call'.sent) <= 1
                   /\ \A i \in DOMAIN call'.sent :
                         /\ call'.sent[i] = Req("movie", call'.id)
                         /\ ToKey(call'.id) \notin DOMAIN poster_cache
                         /\ ToKey(call'.id) \in DOMAIN poster_cache']_vars

\* a second fetch_poster of an identifier that is not blacklisted was
\* answered "no poster" from the cache, without a request
C15_Witness ==
    /\ call.op = "fetch_poster"
    /\ ~Falsy(call.id)
    /\ call.sent = <<>>
    /\ call.id.n \notin NumsOf(bad_tmdb_ids)
    /\ ToKey(call.id) \in DOMAIN poster_cache
    /\ call.poster = NoValue

\* C18: when movie_info's details request is answered 404 and the identifier
\* is blacklisted, the rest of that call sends no other request for the
\* identifier: no credits, videos, watch providers or poster request.
C18_NoRequestAfterNotFound ==
    (/\ call.op = "movie_info"
     /\ ~call.crashed
     /\ call.got # <<>>
     /\ call.got[1].kind = "404"
     /\ call.id \in bad_tmdb_ids)
        => \A i \in DOMAIN call.sent : i > 1 => call.sent[i].n # call.id.n

\* the row the call resolved: get_movie_details the row of its identifier,
\* movie_info the row of lines 253-263; 0 when there is none
RowOf(c) ==
    IF c.op = "movie_info" THEN InfoRow(c.id, c.arg)
    ELSE FirstRow({i \in DOMAIN movies : movies[i].movie_id = c.id})

\* C19: the poster get_movie_details and movie_info return is never empty,
\* and is the placeholder exactly when neither the record (an embedded
\* poster) nor the cache (a poster URL stored before the call) nor the
\* provider (a poster path in an answer of this call) supplied one.
C19_PlaceholderIffNoSource ==
    [][(call'.op \in {"get_movie_details", "movie_info"} /\ Returned(call')) =>
          LET i == RowOf(call')
              embedded == i # 0 /\ extract_existing_poster(movies[i]) # NoValue
              cached == CachedPoster(call'.id) # NoValue
              answered == \E n \in Nums : Got(call', n, "poster")
          IN  /\ call'.poster # NoValue
              /\ call'.poster = PLACEHOLDER_POSTER
                    <=> ~(embedded \/ cached \/ answered)]_vars

\* movie_info was answered a success without a poster path for a record with
\* no poster of its own and returned the placeholder
C19_Witness ==
    /\ call.op = "movie_info"
    /\ Got(call, call.id.n, "ok")
    /\ RowOf(call) # 0
    /\ call.poster = PLACEHOLDER_POSTER

\* C20: in every state of a run an identifier of bad_tmdb_ids has no poster
\* URL in poster_cache (its entry, if any, is "no poster"), so that
\* fetch_poster returns no poster for a blacklisted identifier.
C20_BlacklistedHasNoPoster ==
    \A id \in bad_tmdb_ids : CachedPoster(id) = NoValue

-----------------------------------------------------------------------------
(* Claims on concurrent calls *)

\* C16: when two concurrent fetch_poster calls for one identifier both
\* missed the cache and both asked the provider, after both have finished
\* the poster each returned is the entry of poster_cache for the identifier;
\* and an entry of poster_cache, once written, does not change.
C16_RacersConverge ==
    [][/\ \A t1, t2 \in Threads :
            (/\ t1 # t2
             /\ threads'[t1].pc = "done" /\ threads'[t2].pc = "done"
             /\ threads'[t1].asked /\ threads'[t2].asked
             /\ threads'[t1].key = threads'[t2].key)
                => /\ threads'[t1].ret = poster_cache'[threads'[t1].key]
                   /\ threads'[t2].ret = poster_cache'[threads'[t2].key]
       /\ \A k \in DOMAIN poster_cache : poster_cache'[k] = poster_cache[k]]_vars

\* C17: once every concurrent call has finished, the blacklist file holds
\* every identifier of bad_tmdb_ids, however the calls that were answered 404
\* for different identifiers interleaved.
C17_FileHoldsBlacklist ==
    (\A t \in Threads : threads[t].pc \in {"idle", "done"})
        => bad_tmdb_ids \subseteq load_bad_ids(bad_file)

====
